---- MODULE Spec2Model ----
(***************************************************************************)
(* A model of the encrypted credential vault of src/vault/core.py          *)
(* (class EncryptedVault): the vault file, the vault instances opened on   *)
(* it, the clock, and one action per public method.                        *)
(*                                                                         *)
(* Representation.                                                         *)
(*   - a Python dict is a function whose domain is a set of field names;   *)
(*   - a str holding a service name is a sequence of one-character         *)
(*     strings, so that strip() and lower() are computed;                  *)
(*   - a datetime is a number of seconds; an ISO-8601 string is a record   *)
(*     [secs, tz] (tz is its offset suffix);                               *)
(*   - a JSON text is a sequence of <<name, value>> pairs;                 *)
(*   - Scrypt is the injective pairing of password and salt, AES-GCM       *)
(*     a record that decrypts only under its own key and nonce.            *)
(***************************************************************************)
EXTENDS Integers, Sequences, FiniteSets, TLC

VARIABLES
    now,      \* the wall clock read by _now_utc(), in seconds
    disk,     \* the vault file at vault_path
    vaults,   \* the EncryptedVault instances opened on vault_path
    last,     \* the last call made: its method, instance, arguments and outcome
    journal,  \* history of the adds made since create() (read by no operation)
    manager,  \* VaultManager._vault: the instance the shared manager holds
    frames    \* the calls in progress: each thread's position and local variables

vars == <<now, disk, vaults, last, journal, manager, frames>>

----------------------------------------------------------------------------
(* Bounds of the model. *)

MaxTime == 1
MaxEntries == 2

(* Program constants. *)
CurrentVersion == 2
LegacyVersion == 1

Instances == {"v1", "v2"}
Passwords == {"P", "Q"}
Salts == {"s1", "s2"}
Nonces == {"n1", "n2"}

----------------------------------------------------------------------------
(* Python values. *)

None == [none |-> TRUE]
NoKey == <<>>

DictGet(d, k, default) == IF k \in DOMAIN d THEN d[k] ELSE default
DictSet(d, k, v) == (k :> v) @@ d
DictSetDefault(d, k, v) == IF k \in DOMAIN d THEN d ELSE (k :> v) @@ d
DictPop(d, k) == [x \in DOMAIN d \ {k} |-> d[x]]
(* dict.update that keeps the values already present *)
DictUpdate_keeping(d, u) == d @@ u
DictUpdate(d, u) == u @@ d

(* str.lower() and str.strip() on sequences of characters. *)
LowerChar(c) == CASE c = "A" -> "a" [] c = "B" -> "b" [] OTHER -> c
lower(s) == [k \in 1..Len(s) |-> LowerChar(s[k])]

IsSpace(c) == c = " "
RECURSIVE lstrip(_)
lstrip(s) == IF s # <<>> /\ IsSpace(Head(s)) THEN lstrip(Tail(s)) ELSE s
RECURSIVE rstrip(_)
rstrip(s) ==
    IF s # <<>> /\ IsSpace(s[Len(s)]) THEN rstrip(SubSeq(s, 1, Len(s) - 1)) ELSE s
(* the service taken as given, not stripped *)
strip_nothing(s) == s
strip(s) == rstrip(lstrip(s))

(* list.pop() without its index: the last element goes *)
ListPop_last(l, i) == SubSeq(l, 1, Len(l) - 1)
(* list.pop(i), with a 1-based index. *)
ListPop(l, i) == SubSeq(l, 1, i - 1) \o SubSeq(l, i + 1, Len(l))

----------------------------------------------------------------------------
(* Timestamps. *)

dt_to_iso(dt) == [secs |-> dt, tz |-> "+00:00"]

IsoWellFormed(s) == s.tz \in {"+00:00", "Z", ""}
iso_to_dt(s) == s.secs

----------------------------------------------------------------------------
(* Key derivation and authenticated encryption. *)

derive_key(master_password, salt) == <<master_password, salt>>

(* a cipher that leaves the plaintext as it is *)
AESGCM_encrypt_null(key, nonce, plaintext) == [key |-> <<>>, nonce |-> nonce, pt |-> plaintext]
AESGCM_encrypt(key, nonce, plaintext) == [key |-> key, nonce |-> nonce, pt |-> plaintext]
(* decryption that checks no tag *)
AESGCM_unauthenticated(key, nonce, ciphertext) == TRUE
AESGCM_verifies(key, nonce, ciphertext) == ciphertext.key = key /\ ciphertext.nonce = nonce
AESGCM_decrypt(key, nonce, ciphertext) == ciphertext.pt

----------------------------------------------------------------------------
(* json.dumps and json.loads of the vault document. *)

FieldOrder == <<"service", "token", "note", "expires_at", "created_at", "updated_at",
                "version", "entries", "metadata", "created", "last_modified">>

RECURSIVE DumpsFrom(_, _)
DumpsFrom(d, k) ==
    IF k > Len(FieldOrder) THEN <<>>
    ELSE (IF FieldOrder[k] \in DOMAIN d THEN << <<FieldOrder[k], d[FieldOrder[k]]>> >> ELSE <<>>)
         \o DumpsFrom(d, k + 1)
json_dumps_object(d) == DumpsFrom(d, 1)
json_loads_object(t) ==
    [name \in {t[k][1] : k \in 1..Len(t)} |->
        t[CHOOSE k \in 1..Len(t) : t[k][1] = name /\ \A j \in k+1..Len(t) : t[j][1] # name][2]]

json_dumps(vault_data) ==
    json_dumps_object(
        [name \in DOMAIN vault_data |->
            CASE name = "entries" ->
                    [k \in 1..Len(vault_data.entries) |-> json_dumps_object(vault_data.entries[k])]
              [] name = "metadata" -> json_dumps_object(vault_data.metadata)
              [] OTHER -> vault_data[name]])
json_loads(plaintext) ==
    LET obj == json_loads_object(plaintext) IN
    [name \in DOMAIN obj |->
        CASE name = "entries" -> [k \in 1..Len(obj.entries) |-> json_loads_object(obj.entries[k])]
          [] name = "metadata" -> json_loads_object(obj.metadata)
          [] OTHER -> obj[name]]

(* A plaintext that is not a JSON document: json.loads raises on it. *)
NotJSON == << <<"{", "{">> >>
Decodable(plaintext) == plaintext # NotJSON

----------------------------------------------------------------------------
(* The vault file. *)

NoFile == [exists |-> FALSE]
OwnerOnly == "0600"

(* The modes open(path, "wb") gives a file it creates, by the umask of the  *)
(* process; a file that exists keeps its mode.                              *)
NewFileModes == {"0644", "0600"}

(* the file as written, without the chmod that follows the write *)
VaultFile_as_opened(salt, nonce, ciphertext) ==
    [exists |-> TRUE, salt |-> salt, nonce |-> nonce, ciphertext |-> ciphertext,
     mode |-> IF disk.exists THEN disk.mode ELSE "0644"]

(* The file after f.write(salt + nonce + ciphertext) and os.chmod(path, 0o600). *)
VaultFile(salt, nonce, ciphertext) ==
    [exists |-> TRUE, salt |-> salt, nonce |-> nonce, ciphertext |-> ciphertext,
     mode |-> OwnerOnly]

(* A file that lost its tail: the first bytes that were written of salt +    *)
(* nonce + ciphertext.  Cut before the end of the nonce it is shorter than  *)
(* the 28 bytes unlock() asks for; cut later it has its salt and nonce and  *)
(* a ciphertext without its tag, which no key verifies.                     *)
NoBytes == ""
NoCiphertext == [key |-> NoKey, nonce |-> NoBytes, pt |-> <<>>]
TruncatedFile(salt, nonce, mode) ==
    [exists |-> TRUE, salt |-> salt, nonce |-> nonce, ciphertext |-> NoCiphertext,
     mode |-> mode]
(* len(vault_bytes) < 28 *)
Short(file) == file.salt = NoBytes \/ file.nonce = NoBytes

(* The file holds a whole vault: salt, nonce and a ciphertext that verifies *)
(* under the key it was written with.                                       *)
Complete(file) ==
    /\ file.exists /\ ~Short(file)
    /\ AESGCM_verifies(file.ciphertext.key, file.nonce, file.ciphertext)

(* EncryptedVault.__init__ *)
NewVault(master_password) ==
    [master_password |-> master_password, master_key |-> NoKey,
     vault_data |-> None, is_locked |-> TRUE]

(* The outcome of a call: what it returned or raised, and whether it wrote *)
(* the vault file.                                                         *)
Returned(op, v, args, ret) ==
    [op |-> op, v |-> v, args |-> args, raised |-> "", ret |-> ret, wrote |-> FALSE]
Raised(op, v, args, what) ==
    [op |-> op, v |-> v, args |-> args, raised |-> what, ret |-> None, wrote |-> FALSE]

----------------------------------------------------------------------------
(* Lifecycle. *)

(* create that writes the file and leaves the instance as it was *)
create_unopened(v, salt, nonce) ==
    LET self == vaults[v]
        key == derive_key(self.master_password, salt)
        vault_content ==
            [version |-> CurrentVersion, entries |-> <<>>,
             metadata |-> [created |-> dt_to_iso(now), last_modified |-> dt_to_iso(now)]]
    IN  /\ disk' = VaultFile(salt, nonce, [key |-> key, nonce |-> nonce,
                                            pt |-> json_dumps(vault_content)])
        /\ last' = [Returned("create", v, <<>>, TRUE) EXCEPT !.wrote = TRUE]
        /\ UNCHANGED <<now, vaults>>

(* EncryptedVault.create with the salt and the nonce secrets.token_bytes draws *)
create(v, salt, nonce) ==
    LET self == vaults[v]
        key == derive_key(self.master_password, salt)
        vault_content ==
            [version |-> CurrentVersion, entries |-> <<>>,
             metadata |-> [created |-> dt_to_iso(now), last_modified |-> dt_to_iso(now)]]
        ciphertext == AESGCM_encrypt(key, nonce, json_dumps(vault_content))
    IN  /\ disk' = VaultFile(salt, nonce, ciphertext)
        /\ vaults' = [vaults EXCEPT ![v] =
                [self EXCEPT !.master_key = key, !.vault_data = vault_content,
                             !.is_locked = FALSE]]
        /\ last' = [Returned("create", v, <<>>, TRUE) EXCEPT !.wrote = TRUE]
        /\ UNCHANGED now

(* create() stopped with its process after open(vault_path, "wb") of        *)
(* core.py:105 and before os.chmod of core.py:108: the file has the mode    *)
(* open() left it with, and holds nothing yet (whole = FALSE) or all the    *)
(* bytes of the new vault (whole = TRUE).                                   *)
create_interrupted(v, salt, nonce, mode, whole) ==
    LET self == vaults[v]
        key == derive_key(self.master_password, salt)
        vault_content ==
            [version |-> CurrentVersion, entries |-> <<>>,
             metadata |-> [created |-> dt_to_iso(now), last_modified |-> dt_to_iso(now)]]
        ciphertext == AESGCM_encrypt(key, nonce, json_dumps(vault_content))
        opened == IF disk.exists THEN disk.mode ELSE mode
    IN  /\ disk' = IF whole
                   THEN [VaultFile(salt, nonce, ciphertext) EXCEPT !.mode = opened]
                   ELSE TruncatedFile(NoBytes, NoBytes, opened)
        /\ vaults' = [vaults EXCEPT ![v] = NewVault(self.master_password)]
        /\ last' = Raised("create", v, <<>>, "interrupted")
        /\ UNCHANGED now

(* unlock whose reading and decoding stand outside its try block: each     *)
(* failure surfaces as the exception of the statement that failed           *)
unlock_unwrapped(v) ==
    LET self == vaults[v]
        key == derive_key(self.master_password, disk.salt)
    IN  /\ IF ~disk.exists THEN TRUE
           ELSE IF Short(disk) THEN TRUE
           ELSE IF ~AESGCM_verifies(key, disk.nonce, disk.ciphertext) THEN TRUE
           ELSE ~Decodable(AESGCM_decrypt(key, disk.nonce, disk.ciphertext))
        /\ last' = Raised("unlock", v, <<>>,
                        IF ~disk.exists THEN "VaultError"
                        ELSE IF Short(disk) THEN "VaultError"
                        ELSE IF ~AESGCM_verifies(key, disk.nonce, disk.ciphertext)
                        THEN "InvalidTag"
                        ELSE "JSONDecodeError")
        /\ UNCHANGED <<now, disk, vaults>>

(* EncryptedVault.unlock *)
unlock(v) ==
    LET self == vaults[v]
        key == derive_key(self.master_password, disk.salt)
        loaded == json_loads(AESGCM_decrypt(key, disk.nonce, disk.ciphertext))
        d1 == DictSetDefault(loaded, "version", LegacyVersion)
        d2 == DictSetDefault(d1, "entries", <<>>)
        d3 == DictSetDefault(d2, "metadata", [created |-> dt_to_iso(now)])
        meta1 == DictSetDefault(d3.metadata, "created", dt_to_iso(now))
        meta2 == DictSetDefault(meta1, "last_modified", dt_to_iso(now))
        data == [d3 EXCEPT !.metadata = meta2]
    IN  /\ IF ~disk.exists
           THEN /\ vaults' = vaults
                /\ last' = Raised("unlock", v, <<>>, "unlock")
           ELSE IF Short(disk)
           THEN /\ vaults' = vaults
                /\ last' = Raised("unlock", v, <<>>, "unlock")
           ELSE IF ~AESGCM_verifies(key, disk.nonce, disk.ciphertext)
           THEN /\ vaults' = [vaults EXCEPT ![v] = [self EXCEPT !.master_key = key]]
                /\ last' = Raised("unlock", v, <<>>, "unlock")
           ELSE IF ~Decodable(AESGCM_decrypt(key, disk.nonce, disk.ciphertext))
           THEN /\ vaults' = [vaults EXCEPT ![v] = [self EXCEPT !.master_key = key]]
                /\ last' = Raised("unlock", v, <<>>, "unlock")
           ELSE /\ vaults' = [vaults EXCEPT ![v] =
                        [self EXCEPT !.master_key = key, !.vault_data = data,
                                     !.is_locked = FALSE]]
                /\ last' = Returned("unlock", v, <<>>, TRUE)
        /\ UNCHANGED <<now, disk>>

(* lock that discards key and content and leaves the flag as it is *)
lock_keeping_flag(v) ==
    /\ vaults' = [vaults EXCEPT ![v] = [@ EXCEPT !.master_key = NoKey, !.vault_data = None]]
    /\ last' = Returned("lock", v, <<>>, None)
    /\ UNCHANGED <<now, disk>>

(* lock that keeps the derived key *)
lock_keeping_key(v) ==
    /\ vaults' = [vaults EXCEPT ![v] = [@ EXCEPT !.vault_data = None, !.is_locked = TRUE]]
    /\ last' = Returned("lock", v, <<>>, None)
    /\ UNCHANGED <<now, disk>>

(* EncryptedVault.lock *)
lock(v) ==
    /\ vaults' = [vaults EXCEPT ![v] =
            [@ EXCEPT !.master_key = NoKey, !.vault_data = None, !.is_locked = TRUE]]
    /\ last' = Returned("lock", v, <<>>, None)
    /\ UNCHANGED <<now, disk>>

----------------------------------------------------------------------------
(* Persistence. *)

Entries(v) == vaults[v].vault_data.entries

(* save, writing a newly drawn salt instead of the salt of the existing file *)
save_resalted(v, new_entries, nonce, result) ==
    LET self == vaults[v]
        vault_data == [self.vault_data EXCEPT
                          !.entries = new_entries,
                          !.metadata = DictSet(@, "last_modified", dt_to_iso(now))]
        ciphertext == AESGCM_encrypt(self.master_key, nonce, json_dumps(vault_data))
        salt == CHOOSE x \in Salts : x # disk.salt
    IN  /\ vaults' = [vaults EXCEPT ![v] = [self EXCEPT !.vault_data = vault_data]]
        /\ disk' = VaultFile(salt, nonce, ciphertext)
        /\ last' = [result EXCEPT !.wrote = TRUE]
        /\ UNCHANGED now

(* save, deferring the write of the file *)
save_deferred(v, new_entries, nonce, result) ==
    LET self == vaults[v]
        vault_data == [self.vault_data EXCEPT
                          !.entries = new_entries,
                          !.metadata = DictSet(@, "last_modified", dt_to_iso(now))]
    IN  /\ vaults' = [vaults EXCEPT ![v] = [self EXCEPT !.vault_data = vault_data]]
        /\ last' = result
        /\ UNCHANGED <<now, disk>>

(* save, encrypting under the nonce the file already holds *)
save_same_nonce(v, new_entries, nonce, result) ==
    LET self == vaults[v]
        vault_data == [self.vault_data EXCEPT
                          !.entries = new_entries,
                          !.metadata = DictSet(@, "last_modified", dt_to_iso(now))]
        ciphertext == AESGCM_encrypt(self.master_key, disk.nonce, json_dumps(vault_data))
    IN  /\ vaults' = [vaults EXCEPT ![v] = [self EXCEPT !.vault_data = vault_data]]
        /\ disk' = VaultFile(disk.salt, disk.nonce, ciphertext)
        /\ last' = [result EXCEPT !.wrote = TRUE]
        /\ UNCHANGED now

(* EncryptedVault.save, as every entry operation calls it after changing the *)
(* entries to new_entries: stamp last_modified, encrypt under a new nonce,   *)
(* keep the salt of the existing file, rewrite the file.                     *)
save(v, new_entries, nonce, result) ==
    LET self == vaults[v]
        vault_data == [self.vault_data EXCEPT
                          !.entries = new_entries,
                          !.metadata = DictSet(@, "last_modified", dt_to_iso(now))]
        ciphertext == AESGCM_encrypt(self.master_key, nonce, json_dumps(vault_data))
    IN  /\ vaults' = [vaults EXCEPT ![v] = [self EXCEPT !.vault_data = vault_data]]
        /\ IF disk.exists
           THEN /\ disk' = VaultFile(disk.salt, nonce, ciphertext)
                /\ last' = [result EXCEPT !.wrote = TRUE]
           ELSE /\ disk' = disk
                /\ last' = Raised(result.op, v, result.args, "save")
        /\ UNCHANGED now

(* save() of an unlocked instance, stopped with its process between the     *)
(* open(vault_path, "wb") of core.py:178, which empties the file, and the   *)
(* end of the write of core.py:179: the file keeps its mode and holds the   *)
(* bytes written so far, none (whole = FALSE) or the salt, the nonce and a  *)
(* part of the ciphertext (whole = TRUE).  The instance is gone with its    *)
(* process; the next process constructs it anew.                            *)
save_interrupted(v, nonce, whole) ==
    /\ ~vaults[v].is_locked
    /\ disk.exists
    /\ disk' = IF whole THEN TruncatedFile(disk.salt, nonce, disk.mode)
                        ELSE TruncatedFile(NoBytes, NoBytes, disk.mode)
    /\ vaults' = [vaults EXCEPT ![v] = NewVault(vaults[v].master_password)]
    /\ last' = Raised("save", v, <<>>, "interrupted")
    /\ UNCHANGED now

(* An operation that returns or raises without touching memory or file. *)
Done(result) ==
    /\ last' = result
    /\ UNCHANGED <<now, disk, vaults>>

----------------------------------------------------------------------------
(* Expiry. *)

(* an expires_at that is never found malformed *)
MalformedExpiry_never(entry) == FALSE
HasExpiry(entry) == "expires_at" \in DOMAIN entry
MalformedExpiry(entry) == HasExpiry(entry) /\ ~IsoWellFormed(entry.expires_at)

(* _is_entry_expired with > for >= *)
is_entry_expired_late(entry, t) ==
    IF ~HasExpiry(entry) THEN FALSE ELSE t > iso_to_dt(entry.expires_at)
(* _is_entry_expired with a missing expires_at read as the present time *)
is_entry_expired_default(entry, t) ==
    IF ~HasExpiry(entry) THEN TRUE ELSE t >= iso_to_dt(entry.expires_at)
(* EncryptedVault._is_entry_expired, for a well-formed expires_at *)
is_entry_expired(entry, t) ==
    IF ~HasExpiry(entry) THEN FALSE ELSE t >= iso_to_dt(entry.expires_at)

(* entry.get("service", "").lower() != service.lower(), negated *)
service_matches(entry, service) == lower(DictGet(entry, "service", <<>>)) = lower(service)

(* a lookup loop that keeps the last entry it matches *)
first_match_last(entries, service) ==
    IF \E k \in 1..Len(entries) : service_matches(entries[k], service)
    THEN CHOOSE k \in 1..Len(entries) :
            /\ service_matches(entries[k], service)
            /\ \A j \in (k + 1)..Len(entries) : ~service_matches(entries[j], service)
    ELSE 0

(* The index of the entry a lookup loop stops at, 0 when it runs to the end. *)
first_match(entries, service) ==
    IF \E k \in 1..Len(entries) : service_matches(entries[k], service)
    THEN CHOOSE k \in 1..Len(entries) :
            /\ service_matches(entries[k], service)
            /\ \A j \in 1..(k - 1) : ~service_matches(entries[j], service)
    ELSE 0

----------------------------------------------------------------------------
(* Entry operations. *)

(* add_credential replacing the entries of the same service *)
add_credential_upsert(v, entry_data, nonce) ==
    LET self == vaults[v]
        args == <<entry_data>>
        service == strip(DictGet(entry_data, "service", <<>>))
        popped == DictPop(entry_data, "ttl_seconds")
        with_expiry ==
            IF "ttl_seconds" \in DOMAIN entry_data
            THEN DictSet(popped, "expires_at", dt_to_iso(now + entry_data.ttl_seconds))
            ELSE popped
        entry == DictSet(DictSetDefault(with_expiry, "created_at", dt_to_iso(now)),
                         "updated_at", dt_to_iso(now))
        Other(e) == ~service_matches(e, service)
    IN  IF self.is_locked THEN Done(Raised("add", v, args, "locked"))
        ELSE IF service = <<>> THEN Done(Raised("add", v, args, "validation"))
        ELSE save(v, Append(SelectSeq(Entries(v), Other), entry), nonce,
                  Returned("add", v, args, entry))

(* EncryptedVault.add_credential *)
add_credential(v, entry_data, nonce) ==
    LET self == vaults[v]
        args == <<entry_data>>
        service == strip(DictGet(entry_data, "service", <<>>))
        popped == DictPop(entry_data, "ttl_seconds")
        with_expiry ==
            IF "ttl_seconds" \in DOMAIN entry_data
            THEN DictSet(popped, "expires_at", dt_to_iso(now + entry_data.ttl_seconds))
            ELSE popped
        entry == DictSet(DictSetDefault(with_expiry, "created_at", dt_to_iso(now)),
                         "updated_at", dt_to_iso(now))
    IN  IF self.is_locked THEN Done(Raised("add", v, args, "locked"))
        ELSE IF service = <<>> THEN Done(Raised("add", v, args, "validation"))
        ELSE save(v, Append(Entries(v), entry), nonce, Returned("add", v, args, entry))

(* update_credential giving an expiry only to an entry that has none *)
update_credential_keeping_expiry(v, service, updates, nonce) ==
    LET self == vaults[v]
        args == <<service, updates>>
        i == first_match(Entries(v), service)
        entry == Entries(v)[i]
        popped == DictPop(updates, "ttl_seconds")
        updates_copy ==
            IF "ttl_seconds" \in DOMAIN updates /\ ~HasExpiry(entry)
            THEN DictSet(popped, "expires_at", dt_to_iso(now + updates.ttl_seconds))
            ELSE popped
        updated == DictSet(DictUpdate(entry, updates_copy), "updated_at", dt_to_iso(now))
    IN  IF self.is_locked THEN Done(Raised("update", v, args, "locked"))
        ELSE IF "service" \in DOMAIN updates
                /\ lower(strip(updates.service)) # lower(strip(service))
        THEN Done(Raised("update", v, args, "validation"))
        ELSE IF i = 0 THEN Done(Returned("update", v, args, None))
        ELSE IF MalformedExpiry(entry) THEN Done(Raised("update", v, args, "malformed"))
        ELSE IF is_entry_expired(entry, now) THEN Done(Returned("update", v, args, None))
        ELSE save(v, [Entries(v) EXCEPT ![i] = updated], nonce,
                  Returned("update", v, args, updated))

(* update_credential removing the expired entry it finds *)
update_credential_purging(v, service, updates, nonce) ==
    LET self == vaults[v]
        args == <<service, updates>>
        i == first_match(Entries(v), service)
        entry == Entries(v)[i]
        popped == DictPop(updates, "ttl_seconds")
        updates_copy ==
            IF "ttl_seconds" \in DOMAIN updates
            THEN DictSet(popped, "expires_at", dt_to_iso(now + updates.ttl_seconds))
            ELSE popped
        updated == DictSet(DictUpdate(entry, updates_copy), "updated_at", dt_to_iso(now))
    IN  IF self.is_locked THEN Done(Raised("update", v, args, "locked"))
        ELSE IF "service" \in DOMAIN updates
                /\ lower(strip(updates.service)) # lower(strip(service))
        THEN Done(Raised("update", v, args, "validation"))
        ELSE IF i = 0 THEN Done(Returned("update", v, args, None))
        ELSE IF is_entry_expired(entry, now)
        THEN save(v, ListPop(Entries(v), i), nonce, Returned("update", v, args, None))
        ELSE save(v, [Entries(v) EXCEPT ![i] = updated], nonce,
                  Returned("update", v, args, updated))

(* update_credential without the expiry check of core.py:282-283 *)
update_credential_reviving(v, service, updates, nonce) ==
    LET self == vaults[v]
        args == <<service, updates>>
        i == first_match(Entries(v), service)
        entry == Entries(v)[i]
        popped == DictPop(updates, "ttl_seconds")
        updates_copy ==
            IF "ttl_seconds" \in DOMAIN updates
            THEN DictSet(popped, "expires_at", dt_to_iso(now + updates.ttl_seconds))
            ELSE popped
        updated == DictSet(DictUpdate(entry, updates_copy), "updated_at", dt_to_iso(now))
    IN  IF self.is_locked THEN Done(Raised("update", v, args, "locked"))
        ELSE IF "service" \in DOMAIN updates
                /\ lower(strip(updates.service)) # lower(strip(service))
        THEN Done(Raised("update", v, args, "validation"))
        ELSE IF i = 0 THEN Done(Returned("update", v, args, None))
        ELSE save(v, [Entries(v) EXCEPT ![i] = updated], nonce,
                  Returned("update", v, args, updated))

(* EncryptedVault.update_credential *)
update_credential(v, service, updates, nonce) ==
    LET self == vaults[v]
        args == <<service, updates>>
        i == first_match(Entries(v), service)
        entry == Entries(v)[i]
        popped == DictPop(updates, "ttl_seconds")
        updates_copy ==
            IF "ttl_seconds" \in DOMAIN updates
            THEN DictSet(popped, "expires_at", dt_to_iso(now + updates.ttl_seconds))
            ELSE popped
        updated == DictSet(DictUpdate(entry, updates_copy), "updated_at", dt_to_iso(now))
    IN  IF self.is_locked THEN Done(Raised("update", v, args, "locked"))
        ELSE IF "service" \in DOMAIN updates
                /\ lower(strip(updates.service)) # lower(strip(service))
        THEN Done(Raised("update", v, args, "validation"))
        ELSE IF i = 0 THEN Done(Returned("update", v, args, None))
        ELSE IF MalformedExpiry(entry) THEN Done(Raised("update", v, args, "malformed"))
        ELSE IF is_entry_expired(entry, now) THEN Done(Returned("update", v, args, None))
        ELSE save(v, [Entries(v) EXCEPT ![i] = updated], nonce,
                  Returned("update", v, args, updated))

(* EncryptedVault.get_credential *)
get_credential(v, service, purge_if_expired, nonce) ==
    LET self == vaults[v]
        args == <<service, purge_if_expired>>
        i == first_match(Entries(v), service)
        entry == Entries(v)[i]
    IN  IF self.is_locked THEN Done(Raised("get", v, args, "locked"))
        ELSE IF i = 0 THEN Done(Returned("get", v, args, None))
        ELSE IF MalformedExpiry(entry) THEN Done(Raised("get", v, args, "malformed"))
        ELSE IF is_entry_expired(entry, now)
        THEN IF purge_if_expired
             THEN save(v, ListPop(Entries(v), i), nonce, Returned("get", v, args, None))
             ELSE Done(Returned("get", v, args, None))
        ELSE Done(Returned("get", v, args, entry))

(* get_service_fields without the expiry check *)
get_service_fields_unexpiring(v, service) ==
    LET self == vaults[v]
        args == <<service>>
        i == first_match(Entries(v), service)
        entry == Entries(v)[i]
    IN  IF self.is_locked THEN Done(Raised("get_fields", v, args, "locked"))
        ELSE IF i = 0 THEN Done(Returned("get_fields", v, args, None))
        ELSE Done(Returned("get_fields", v, args, [keys |-> DOMAIN entry]))

(* get_service_fields purging the expired entry it meets, as get does *)
get_service_fields_purging(v, service) ==
    LET self == vaults[v]
        args == <<service>>
        i == first_match(Entries(v), service)
        entry == Entries(v)[i]
    IN  IF self.is_locked THEN Done(Raised("get_fields", v, args, "locked"))
        ELSE IF i = 0 THEN Done(Returned("get_fields", v, args, None))
        ELSE IF is_entry_expired(entry, now)
        THEN save(v, ListPop(Entries(v), i), "n1", Returned("get_fields", v, args, None))
        ELSE Done(Returned("get_fields", v, args, [keys |-> DOMAIN entry]))

(* EncryptedVault.get_service_fields; the list of keys is their set *)
get_service_fields(v, service) ==
    LET self == vaults[v]
        args == <<service>>
        i == first_match(Entries(v), service)
        entry == Entries(v)[i]
    IN  IF self.is_locked THEN Done(Raised("get_fields", v, args, "locked"))
        ELSE IF i = 0 THEN Done(Returned("get_fields", v, args, None))
        ELSE IF MalformedExpiry(entry) THEN Done(Raised("get_fields", v, args, "malformed"))
        ELSE IF is_entry_expired(entry, now) THEN Done(Returned("get_fields", v, args, None))
        ELSE Done(Returned("get_fields", v, args, [keys |-> DOMAIN entry]))

(* The names list_services collects from an unlocked vault (core.py:353-358) *)
listed_services(entries, include_expired, t) ==
    LET Listed(e) == include_expired \/ ~is_entry_expired(e, t)
        shown == SelectSeq(entries, Listed)
    IN  [k \in 1..Len(shown) |-> DictGet(shown[k], "service", <<>>)]

(* list_services, raising on a locked vault like the other operations *)
list_services_guarded(v, include_expired) ==
    LET self == vaults[v]
        args == <<include_expired>>
    IN  IF self.is_locked THEN Done(Raised("list", v, args, "locked"))
        ELSE Done(Returned("list", v, args, listed_services(Entries(v), include_expired, now)))

(* list_services dropping the expired entries it passes over *)
list_services_purging(v, include_expired) ==
    LET self == vaults[v]
        args == <<include_expired>>
        Live(e) == ~is_entry_expired(e, now)
        live == SelectSeq(Entries(v), Live)
        result == Returned("list", v, args, listed_services(Entries(v), include_expired, now))
    IN  IF self.is_locked THEN Done(Returned("list", v, args, <<>>))
        ELSE IF include_expired \/ Len(live) = Len(Entries(v)) THEN Done(result)
        ELSE save(v, live, "n1", result)

(* EncryptedVault.list_services *)
list_services(v, include_expired) ==
    LET self == vaults[v]
        args == <<include_expired>>
    IN  IF self.is_locked THEN Done(Returned("list", v, args, <<>>))
        ELSE IF ~include_expired /\ \E k \in 1..Len(Entries(v)) : MalformedExpiry(Entries(v)[k])
        THEN Done(Raised("list", v, args, "malformed"))
        ELSE Done(Returned("list", v, args, listed_services(Entries(v), include_expired, now)))

(* delete_credential saving whether or not an entry was removed *)
delete_credential_resaving(v, service, nonce) ==
    LET self == vaults[v]
        args == <<service>>
        Kept(e) == ~service_matches(e, service)
        kept == SelectSeq(Entries(v), Kept)
    IN  IF self.is_locked THEN Done(Raised("delete", v, args, "locked"))
        ELSE save(v, kept, nonce, Returned("delete", v, args, Len(kept) < Len(Entries(v))))

(* delete_credential removing the first match only *)
delete_credential_first(v, service, nonce) ==
    LET self == vaults[v]
        args == <<service>>
        i == first_match(Entries(v), service)
    IN  IF self.is_locked THEN Done(Raised("delete", v, args, "locked"))
        ELSE IF i > 0
        THEN save(v, ListPop(Entries(v), i), nonce, Returned("delete", v, args, TRUE))
        ELSE Done(Returned("delete", v, args, FALSE))

(* EncryptedVault.delete_credential *)
delete_credential(v, service, nonce) ==
    LET self == vaults[v]
        args == <<service>>
        Kept(e) == ~service_matches(e, service)
        kept == SelectSeq(Entries(v), Kept)
    IN  IF self.is_locked THEN Done(Raised("delete", v, args, "locked"))
        ELSE IF Len(kept) < Len(Entries(v))
        THEN save(v, kept, nonce, Returned("delete", v, args, TRUE))
        ELSE Done(Returned("delete", v, args, FALSE))

(* purge_expired stopping at the first expired entry *)
purge_expired_first(v, nonce) ==
    LET self == vaults[v]
        Dead(k) == is_entry_expired(Entries(v)[k], now)
        i == IF \E k \in 1..Len(Entries(v)) : Dead(k)
             THEN CHOOSE k \in 1..Len(Entries(v)) : Dead(k) /\ \A j \in 1..(k - 1) : ~Dead(j)
             ELSE 0
    IN  IF self.is_locked THEN Done(Raised("purge_expired", v, <<>>, "locked"))
        ELSE IF i > 0
        THEN save(v, ListPop(Entries(v), i), nonce, Returned("purge_expired", v, <<>>, 1))
        ELSE Done(Returned("purge_expired", v, <<>>, 0))

(* EncryptedVault.purge_expired *)
purge_expired(v, nonce) ==
    LET self == vaults[v]
        Live(e) == ~is_entry_expired(e, now)
        live == SelectSeq(Entries(v), Live)
        removed == Len(Entries(v)) - Len(live)
    IN  IF self.is_locked THEN Done(Raised("purge_expired", v, <<>>, "locked"))
        ELSE IF \E k \in 1..Len(Entries(v)) : MalformedExpiry(Entries(v)[k])
        THEN Done(Raised("purge_expired", v, <<>>, "malformed"))
        ELSE IF removed > 0
        THEN save(v, live, nonce, Returned("purge_expired", v, <<>>, removed))
        ELSE Done(Returned("purge_expired", v, <<>>, removed))

----------------------------------------------------------------------------
(* The journal: a history variable, read by no operation.  It records the   *)
(* service names added since create() while the history is clean, that is   *)
(* while every write of the file since create() was an add, without expiry, *)
(* made by the creating instance; synced is the set of instances whose      *)
(* memory was loaded from, or written to, the file as it now is; removed is *)
(* the number of entries the last call took away, when it was a delete.     *)

NoJournal == [clean |-> FALSE, writer |-> "v1", names |-> <<>>, synced |-> {}, removed |-> 0]

Journaled ==
    LET removed ==
            IF last'.op = "delete" /\ last'.wrote
            THEN Len(vaults[last'.v].vault_data.entries)
                    - Len(vaults'[last'.v].vault_data.entries)
            ELSE 0
        recorded ==
        IF last'.op = "create" /\ last'.raised = ""
        THEN [clean |-> TRUE, writer |-> last'.v, names |-> <<>>, synced |-> {last'.v},
              removed |-> 0]
        ELSE IF /\ last'.op = "add" /\ last'.raised = ""
                /\ journal.clean /\ last'.v = journal.writer /\ last'.v \in journal.synced
                /\ ~HasExpiry(last'.ret)
        THEN [journal EXCEPT !.names = Append(@, last'.ret.service), !.synced = {last'.v}]
        ELSE IF disk' # disk \/ ~journal.clean
        THEN NoJournal
        ELSE IF last'.op = "unlock" /\ last'.raised = ""
        THEN [journal EXCEPT !.synced = @ \cup {last'.v}]
        ELSE IF last'.op = "lock"
        THEN [journal EXCEPT !.synced = @ \ {last'.v}]
        ELSE journal
    IN  journal' = [recorded EXCEPT !.removed = removed]

----------------------------------------------------------------------------
(* The shared manager and the threads. *)

(* VaultManager._vault is None (src/vault/manager.py:18) *)
NoVault == ""

(* The threads of the process, and a thread that is in no call. *)
Threads == {"t1", "t2"}
Idle == [pc |-> "idle", op |-> "", service |-> <<>>, entry |-> None, kept |-> <<>>,
         original_count |-> 0, ciphertext |-> NoCiphertext]

(* A call made on an instance by its one caller, from start to end: the     *)
(* manager and the other threads have no part in it.                        *)
Plain == Journaled /\ UNCHANGED <<manager, frames>>

----------------------------------------------------------------------------
(* The calls the callers make. *)

Names == {<<"a">>, <<"A">>, <<"b">>}
Lookups == {<<"A">>, <<"b">>}
Secret == "abc"
Rotated == "xyz"
TTLs == {0, 1}

AddInputs ==
       {[service |-> s, token |-> Secret] : s \in Names}
    \cup {[service |-> s, token |-> Secret, ttl_seconds |-> t] : s \in Names, t \in TTLs}
    \cup {[token |-> Secret], [service |-> <<>>, token |-> Secret],
          [service |-> <<" ">>, token |-> Secret]}

UpdateInputs ==
    {[token |-> Rotated, note |-> "n"], [service |-> <<"A">>]}
    \cup {[ttl_seconds |-> t] : t \in TTLs}

(* The entry list is kept within MaxEntries: an add that would append to a  *)
(* full list is not made.                                                   *)
Room(v) == IF vaults[v].is_locked THEN TRUE ELSE Len(Entries(v)) < MaxEntries

Tick ==
    /\ now < MaxTime
    /\ now' = now + 1
    /\ UNCHANGED <<disk, vaults, last, journal, manager, frames>>

(* One owner: a single instance, opened with the password P.  As in         *)
(* VaultManager.initialize (src/vault/manager.py:53-58), create() is called *)
(* when the vault file does not exist and unlock() when it does.            *)
Owner == "v1"

Init ==
    /\ now = 0
    /\ disk = NoFile
    /\ vaults = [v \in Instances |-> NewVault("P")]
    /\ last = Returned("init", Owner, <<>>, None)
    /\ journal = NoJournal
    /\ manager = NoVault
    /\ frames = [t \in Threads |-> Idle]

Next ==
    \/ Tick
    \/ \E salt \in {"s1"} : ~disk.exists /\ create(Owner, salt, "n1") /\ Plain
    \/ unlock(Owner) /\ Plain
    \/ lock(Owner) /\ Plain
    \/ \E entry_data \in AddInputs :
            Room(Owner) /\ add_credential(Owner, entry_data, "n1") /\ Plain
    \/ \E service \in Lookups, updates \in UpdateInputs :
            update_credential(Owner, service, updates, "n1") /\ Plain
    \/ \E service \in Lookups, purge_if_expired \in BOOLEAN :
            get_credential(Owner, service, purge_if_expired, "n1") /\ Plain
    \/ \E service \in Lookups : get_service_fields(Owner, service) /\ Plain
    \/ \E include_expired \in BOOLEAN : list_services(Owner, include_expired) /\ Plain
    \/ \E service \in Lookups : delete_credential(Owner, service, "n1") /\ Plain
    \/ purge_expired(Owner, "n1") /\ Plain

Spec == Init /\ [][Next]_vars

(* Several owners: two instances opened on the same file, the second with   *)
(* either password, the salts and nonces drawn from Salts and Nonces, fewer *)
(* distinct arguments, and all the calls made within one second.            *)
SharedAdds ==
    {[service |-> <<"a">>, token |-> Secret], [service |-> <<"b">>, token |-> Secret]}
SharedLookups == {<<"A">>}
SharedUpdates == {[token |-> Rotated, note |-> "n"]}

InitShared ==
    /\ now = 0
    /\ disk = NoFile
    /\ \E p \in Passwords : vaults = [v \in Instances |-> NewVault(IF v = Owner THEN "P" ELSE p)]
    /\ last = Returned("init", Owner, <<>>, None)
    /\ journal = NoJournal
    /\ manager = NoVault
    /\ frames = [t \in Threads |-> Idle]

NextShared ==
    \/ \E v \in Instances, salt \in Salts, nonce \in Nonces :
            ~disk.exists /\ create(v, salt, nonce) /\ Plain
    \/ \E v \in Instances : unlock(v) /\ Plain
    \/ \E v \in Instances : lock(v) /\ Plain
    \/ \E v \in Instances, entry_data \in SharedAdds, nonce \in Nonces :
            Room(v) /\ add_credential(v, entry_data, nonce) /\ Plain
    \/ \E v \in Instances, service \in SharedLookups, updates \in SharedUpdates, nonce \in Nonces :
            update_credential(v, service, updates, nonce) /\ Plain
    \/ \E v \in Instances, service \in SharedLookups, nonce \in Nonces :
            get_credential(v, service, TRUE, nonce) /\ Plain
    \/ \E v \in Instances, service \in SharedLookups : get_service_fields(v, service) /\ Plain
    \/ \E v \in Instances : list_services(v, FALSE) /\ Plain
    \/ \E v \in Instances, service \in SharedLookups, nonce \in Nonces :
            delete_credential(v, service, nonce) /\ Plain
    \/ \E v \in Instances, nonce \in Nonces : purge_expired(v, nonce) /\ Plain

SpecShared == InitShared /\ [][NextShared]_vars

(* Direct callers: one instance used without the manager, which calls       *)
(* create() whether or not the vault file exists, and whose process may     *)
(* stop in the middle of a save.                                            *)
NextDirect ==
    \/ \E salt \in Salts : create(Owner, salt, "n1") /\ Plain
    \/ unlock(Owner) /\ Plain
    \/ lock(Owner) /\ Plain
    \/ \E entry_data \in SharedAdds :
            Room(Owner) /\ add_credential(Owner, entry_data, "n1") /\ Plain
    \/ \E service \in SharedLookups : get_credential(Owner, service, TRUE, "n1") /\ Plain
    \/ list_services(Owner, FALSE) /\ Plain
    \/ \E service \in SharedLookups : delete_credential(Owner, service, "n1") /\ Plain
    \/ \E whole \in BOOLEAN : save_interrupted(Owner, "n1", whole) /\ Plain
    \/ \E salt \in Salts, mode \in NewFileModes, whole \in BOOLEAN :
            create_interrupted(Owner, salt, "n1", mode, whole) /\ Plain

SpecDirect == Init /\ [][NextDirect]_vars

(* Callers that write expires_at themselves: an entry may be added, or      *)
(* updated, with an expires_at of the caller's making, well formed (in the  *)
(* "Z" notation) or not a timestamp at all.                                 *)
Stamped == [secs |-> 1, tz |-> "Z"]
Garbled == [secs |-> 0, tz |-> "?"]

StampedAdds ==
    {[service |-> <<"a">>, token |-> Secret, expires_at |-> Stamped],
     [service |-> <<"a">>, token |-> Secret, expires_at |-> Garbled],
     [service |-> <<"b">>, token |-> Secret]}

StampedUpdates ==
    {[ttl_seconds |-> 2], [token |-> Rotated],
     [expires_at |-> Stamped], [expires_at |-> Garbled]}

NextStamped ==
    \/ Tick
    \/ ~disk.exists /\ create(Owner, "s1", "n1") /\ Plain
    \/ \E entry_data \in StampedAdds :
            Room(Owner) /\ add_credential(Owner, entry_data, "n1") /\ Plain
    \/ \E service \in Lookups, updates \in StampedUpdates :
            update_credential(Owner, service, updates, "n1") /\ Plain
    \/ \E service \in Lookups, purge_if_expired \in BOOLEAN :
            get_credential(Owner, service, purge_if_expired, "n1") /\ Plain
    \/ list_services(Owner, FALSE) /\ Plain
    \/ purge_expired(Owner, "n1") /\ Plain

SpecStamped == Init /\ [][NextStamped]_vars

----------------------------------------------------------------------------
(* The shared manager (src/vault/manager.py). *)

(* The master passwords a caller passes to initialize(), or leaves to       *)
(* VAULT_MASTER_PASSWORD: none at all, the one of the vault, another one.   *)
ManagerPasswords == {"", "P", "Q"}

(* VaultManager.initialize from its password check on (manager.py:42-62),   *)
(* with the salt and the nonce create() draws when the vault file does not  *)
(* exist.                                                                   *)
initialize_anew(master_password, salt, nonce) ==
    LET self == NewVault(master_password)
        vault_content ==
            [version |-> CurrentVersion, entries |-> <<>>,
             metadata |-> [created |-> dt_to_iso(now), last_modified |-> dt_to_iso(now)]]
        new_key == derive_key(master_password, salt)
        key == derive_key(master_password, disk.salt)
        loaded == json_loads(AESGCM_decrypt(key, disk.nonce, disk.ciphertext))
        d1 == DictSetDefault(loaded, "version", LegacyVersion)
        d2 == DictSetDefault(d1, "entries", <<>>)
        d3 == DictSetDefault(d2, "metadata", [created |-> dt_to_iso(now)])
        meta1 == DictSetDefault(d3.metadata, "created", dt_to_iso(now))
        meta2 == DictSetDefault(meta1, "last_modified", dt_to_iso(now))
        data == [d3 EXCEPT !.metadata = meta2]
    IN  IF master_password = ""
        THEN /\ last' = Raised("initialize", Owner, <<master_password>>, "VaultError")
             /\ UNCHANGED <<now, disk, vaults, manager>>
        ELSE /\ manager' = Owner
             /\ IF ~disk.exists
                THEN /\ disk' = VaultFile(salt, nonce,
                                    AESGCM_encrypt(new_key, nonce, json_dumps(vault_content)))
                     /\ vaults' = [vaults EXCEPT ![Owner] =
                            [self EXCEPT !.master_key = new_key, !.vault_data = vault_content,
                                         !.is_locked = FALSE]]
                     /\ last' = [Returned("initialize", Owner, <<master_password>>, TRUE)
                                    EXCEPT !.wrote = TRUE]
                ELSE IF Short(disk)
                THEN /\ vaults' = [vaults EXCEPT ![Owner] = self]
                     /\ last' = Returned("initialize", Owner, <<master_password>>, FALSE)
                     /\ UNCHANGED disk
                ELSE IF ~AESGCM_verifies(key, disk.nonce, disk.ciphertext)
                THEN /\ vaults' = [vaults EXCEPT ![Owner] = [self EXCEPT !.master_key = key]]
                     /\ last' = Returned("initialize", Owner, <<master_password>>, FALSE)
                     /\ UNCHANGED disk
                ELSE /\ vaults' = [vaults EXCEPT ![Owner] =
                            [self EXCEPT !.master_key = key, !.vault_data = data,
                                         !.is_locked = FALSE]]
                     /\ last' = Returned("initialize", Owner, <<master_password>>, TRUE)
                     /\ UNCHANGED disk
             /\ UNCHANGED now

(* initialize without the return of manager.py:39-40 *)
initialize_rebuilding(master_password, salt, nonce) ==
    initialize_anew(master_password, salt, nonce)

(* VaultManager.initialize *)
initialize(master_password, salt, nonce) ==
    IF manager # NoVault
    THEN /\ last' = Returned("initialize", manager, <<master_password>>, TRUE)
         /\ UNCHANGED <<now, disk, vaults, manager>>
    ELSE initialize_anew(master_password, salt, nonce)

(* EncryptedVault.is_locked and VaultManager.is_locked *)
is_locked(v) == vaults[v].is_locked
manager_is_locked == IF manager = NoVault THEN TRUE ELSE is_locked(manager)

(* VaultManager.get_vault when initialize() was not called: the wrappers    *)
(* raise before they reach the vault.                                       *)
get_vault_uninitialized ==
    /\ manager = NoVault
    /\ last' = Raised("get_vault", Owner, <<>>, "VaultError")
    /\ UNCHANGED <<now, disk, vaults, manager>>

(* VaultManager.lock *)
manager_lock ==
    IF manager # NoVault
    THEN lock(manager) /\ UNCHANGED manager
    ELSE /\ last' = Returned("lock", Owner, <<>>, None)
         /\ UNCHANGED <<now, disk, vaults, manager>>

(* The process ends and another starts: the class attribute _vault is None  *)
(* again and the instance the manager held is gone with the memory of the   *)
(* process; the vault file stays.                                           *)
process_exit ==
    /\ manager # NoVault
    /\ manager' = NoVault
    /\ vaults' = [vaults EXCEPT ![manager] = NewVault("P")]
    /\ last' = Returned("exit", manager, <<>>, None)
    /\ UNCHANGED <<now, disk>>

(* The journal is not kept for the calls made through the manager. *)
Managed == journal' = NoJournal /\ UNCHANGED frames

NextManager ==
    \/ \E master_password \in ManagerPasswords :
            initialize(master_password, "s1", "n1") /\ Managed
    \/ get_vault_uninitialized /\ Managed
    \/ manager_lock /\ Managed
    \/ \E entry_data \in SharedAdds :
            /\ manager # NoVault /\ Room(manager)
            /\ add_credential(manager, entry_data, "n1") /\ UNCHANGED manager /\ Managed
    \/ \E service \in SharedLookups :
            /\ manager # NoVault
            /\ delete_credential(manager, service, "n1") /\ UNCHANGED manager /\ Managed
    \/ process_exit /\ Managed

SpecManager == Init /\ [][NextManager]_vars

----------------------------------------------------------------------------
(* Two threads on one instance.  No statement of EncryptedVault takes a     *)
(* lock, so a thread may be scheduled between any two statements of a call  *)
(* of another: a call is a sequence of steps, each one a statement or a run *)
(* of statements on the thread's own local variables.                       *)

(* add_credential up to its self.save(): the checks, the entry built from   *)
(* entry_data and self.vault_data["entries"].append(entry).                 *)
add_credential_append(t, v, entry_data) ==
    LET self == vaults[v]
        args == <<entry_data>>
        service == strip(DictGet(entry_data, "service", <<>>))
        popped == DictPop(entry_data, "ttl_seconds")
        with_expiry ==
            IF "ttl_seconds" \in DOMAIN entry_data
            THEN DictSet(popped, "expires_at", dt_to_iso(now + entry_data.ttl_seconds))
            ELSE popped
        entry == DictSet(DictSetDefault(with_expiry, "created_at", dt_to_iso(now)),
                         "updated_at", dt_to_iso(now))
    IN  /\ frames[t].pc = "idle"
        /\ IF self.is_locked
           THEN Done(Raised("add", v, args, "locked")) /\ UNCHANGED frames
           ELSE IF service = <<>>
           THEN Done(Raised("add", v, args, "validation")) /\ UNCHANGED frames
           ELSE /\ vaults' = [vaults EXCEPT ![v].vault_data.entries = Append(@, entry)]
                /\ frames' = [frames EXCEPT ![t] =
                        [Idle EXCEPT !.pc = "save", !.op = "add", !.entry = entry]]
                /\ last' = Returned("append", v, args, None)
                /\ UNCHANGED <<now, disk>>

(* delete_credential, the right-hand side of its assignment: the count and  *)
(* the list of the entries to keep, built from the entries as they are now. *)
delete_credential_filter(t, v, service) ==
    LET self == vaults[v]
        Kept(e) == ~service_matches(e, service)
    IN  /\ frames[t].pc = "idle"
        /\ IF self.is_locked
           THEN Done(Raised("delete", v, <<service>>, "locked")) /\ UNCHANGED frames
           ELSE /\ frames' = [frames EXCEPT ![t] =
                        [Idle EXCEPT !.pc = "assign", !.op = "delete", !.service = service,
                                     !.original_count = Len(Entries(v)),
                                     !.kept = SelectSeq(Entries(v), Kept)]]
                /\ last' = Returned("filter", v, <<service>>, None)
                /\ UNCHANGED <<now, disk, vaults>>

(* delete_credential, the assignment self.vault_data["entries"] = [...] and *)
(* the test that follows it: save, or return False.                         *)
delete_credential_assign(t, v) ==
    LET frame == frames[t]
    IN  /\ frame.pc = "assign"
        /\ vaults' = [vaults EXCEPT ![v].vault_data.entries = frame.kept]
        /\ IF Len(frame.kept) < frame.original_count
           THEN /\ frames' = [frames EXCEPT ![t].pc = "save"]
                /\ last' = Returned("assign", v, <<frame.service>>, None)
           ELSE /\ frames' = [frames EXCEPT ![t] = Idle]
                /\ last' = Returned("delete", v, <<frame.service>>, FALSE)
        /\ UNCHANGED <<now, disk>>

(* save() up to its reading of the file: last_modified is stamped and       *)
(* self.vault_data, as it is now, is dumped and encrypted under a new nonce *)
(* into the thread's own ciphertext.                                        *)
save_encrypt(t, v, nonce) ==
    LET self == vaults[v]
        frame == frames[t]
        vault_data == [self.vault_data EXCEPT
                          !.metadata = DictSet(@, "last_modified", dt_to_iso(now))]
        ciphertext == AESGCM_encrypt(self.master_key, nonce, json_dumps(vault_data))
    IN  /\ frame.pc = "save"
        /\ IF self.is_locked
           THEN /\ frames' = [frames EXCEPT ![t] = Idle]
                /\ Done(Raised(frame.op, v, <<>>, "save"))
           ELSE /\ vaults' = [vaults EXCEPT ![v] = [self EXCEPT !.vault_data = vault_data]]
                /\ frames' = [frames EXCEPT ![t] =
                        [frame EXCEPT !.pc = "write", !.ciphertext = ciphertext]]
                /\ last' = Returned("encrypt", v, <<>>, None)
                /\ UNCHANGED <<now, disk>>

(* save() from its reading of the salt on: the file is rewritten with the   *)
(* salt it holds, the nonce and the ciphertext of the thread, and the call  *)
(* that saved returns.                                                      *)
save_write(t, v) ==
    LET frame == frames[t]
        result == IF frame.op = "add"
                  THEN Returned("add", v, <<>>, frame.entry)
                  ELSE Returned("delete", v, <<frame.service>>, TRUE)
    IN  /\ frame.pc = "write"
        /\ frames' = [frames EXCEPT ![t] = Idle]
        /\ IF disk.exists
           THEN /\ disk' = VaultFile(disk.salt, frame.ciphertext.nonce, frame.ciphertext)
                /\ last' = [result EXCEPT !.wrote = TRUE]
           ELSE /\ disk' = disk
                /\ last' = Raised(frame.op, v, <<>>, "save")
        /\ UNCHANGED <<now, vaults>>

(* No call is in progress. *)
Quiescent == \A t \in Threads : frames[t].pc = "idle"

(* The journal is not kept for the calls made by threads. *)
Threaded == journal' = NoJournal /\ UNCHANGED manager

NextThreads ==
    \/ Quiescent /\ ~disk.exists /\ create(Owner, "s1", "n1") /\ Plain
    \/ \E t \in Threads, entry_data \in SharedAdds :
            Room(Owner) /\ add_credential_append(t, Owner, entry_data) /\ Threaded
    \/ \E t \in Threads, service \in SharedLookups :
            delete_credential_filter(t, Owner, service) /\ Threaded
    \/ \E t \in Threads : delete_credential_assign(t, Owner) /\ Threaded
    \/ \E t \in Threads, nonce \in Nonces : save_encrypt(t, Owner, nonce) /\ Threaded
    \/ \E t \in Threads : save_write(t, Owner) /\ Threaded

SpecThreads == Init /\ [][NextThreads]_vars

----------------------------------------------------------------------------
(* A vault of an older release.  The file the owner finds may have been     *)
(* written by an earlier version of the program: its document carries the   *)
(* version 1, or no version and no metadata at all, which unlock() accepts  *)
(* and fills in (core.py:138-143).                                          *)
LegacyEntry == [service |-> <<"a">>, token |-> Secret]
LegacyDocuments ==
    {[entries |-> <<LegacyEntry>>],
     [version |-> LegacyVersion, entries |-> <<>>,
      metadata |-> [created |-> dt_to_iso(0)]],
     [version |-> LegacyVersion, entries |-> <<LegacyEntry>>,
      metadata |-> [created |-> dt_to_iso(0), last_modified |-> dt_to_iso(0)]]}
LegacyFile(document) ==
    [exists |-> TRUE, salt |-> "s1", nonce |-> "n2",
     ciphertext |-> AESGCM_encrypt(derive_key("P", "s1"), "n2", json_dumps(document)),
     mode |-> OwnerOnly]

InitLegacy ==
    /\ now = 0
    /\ disk \in {NoFile} \cup {LegacyFile(document) : document \in LegacyDocuments}
    /\ vaults = [v \in Instances |-> NewVault("P")]
    /\ last = Returned("init", Owner, <<>>, None)
    /\ journal = NoJournal
    /\ manager = NoVault
    /\ frames = [t \in Threads |-> Idle]

NextLegacy ==
    \/ Tick
    \/ ~disk.exists /\ create(Owner, "s1", "n1") /\ Plain
    \/ unlock(Owner) /\ Plain
    \/ lock(Owner) /\ Plain
    \/ \E entry_data \in SharedAdds :
            Room(Owner) /\ add_credential(Owner, entry_data, "n1") /\ Plain
    \/ \E service \in SharedLookups, updates \in SharedUpdates :
            update_credential(Owner, service, updates, "n1") /\ Plain
    \/ \E service \in SharedLookups : get_credential(Owner, service, TRUE, "n1") /\ Plain
    \/ \E service \in SharedLookups : delete_credential(Owner, service, "n1") /\ Plain

SpecLegacy == InitLegacy /\ [][NextLegacy]_vars

----------------------------------------------------------------------------
(* A vault file in other hands.  Between two calls the file may be removed, *)
(* cut short, or have its salt, its nonce or its ciphertext and tag altered *)
(* by someone without the key, or be rewritten by someone with the key to   *)
(* hold a plaintext that is no JSON document: the cases unlock() meets at   *)
(* core.py:118, 124, 131-134 and 136.                                       *)
Tamperings == {"remove", "truncate", "salt", "nonce", "ciphertext", "plaintext"}

tamper(what) ==
    /\ Complete(disk)
    /\ disk' =
        CASE what = "remove" -> NoFile
          [] what = "truncate" -> TruncatedFile(NoBytes, NoBytes, disk.mode)
          [] what = "salt" -> [disk EXCEPT !.salt = IF @ = "s1" THEN "s2" ELSE "s1"]
          [] what = "nonce" -> [disk EXCEPT !.nonce = IF @ = "n1" THEN "n2" ELSE "n1"]
          [] what = "ciphertext" -> [disk EXCEPT !.ciphertext.nonce = NoBytes]
          [] what = "plaintext" ->
                [disk EXCEPT !.ciphertext = AESGCM_encrypt(@.key, @.nonce, NotJSON)]
    /\ last' = Returned("tamper", Owner, <<what>>, None)
    /\ UNCHANGED <<now, vaults>>

NextTampered ==
    \/ ~disk.exists /\ create(Owner, "s1", "n1") /\ Plain
    \/ \E v \in Instances : unlock(v) /\ Plain
    \/ \E v \in Instances : lock(v) /\ Plain
    \/ \E entry_data \in SharedAdds :
            /\ Complete(disk) /\ Room(Owner)
            /\ add_credential(Owner, entry_data, "n1") /\ Plain
    \/ \E what \in Tamperings : tamper(what) /\ Plain

SpecTampered == InitShared /\ [][NextTampered]_vars

----------------------------------------------------------------------------
(* A save that fails.  save() reads the salt from the existing file before  *)
(* it writes (core.py:171-174): once the file has been removed under an     *)
(* unlocked instance, every save raises.                                    *)
NextUnwritable ==
    \/ Tick
    \/ ~disk.exists /\ vaults[Owner].is_locked /\ create(Owner, "s1", "n1") /\ Plain
    \/ tamper("remove") /\ Plain
    \/ \E entry_data \in SharedAdds \cup {[service |-> <<"a">>, token |-> Secret, ttl_seconds |-> 1]} :
            Room(Owner) /\ add_credential(Owner, entry_data, "n1") /\ Plain
    \/ \E service \in SharedLookups, updates \in SharedUpdates :
            update_credential(Owner, service, updates, "n1") /\ Plain
    \/ \E service \in SharedLookups : get_credential(Owner, service, TRUE, "n1") /\ Plain
    \/ \E service \in SharedLookups : delete_credential(Owner, service, "n1") /\ Plain
    \/ purge_expired(Owner, "n1") /\ Plain

SpecUnwritable == Init /\ [][NextUnwritable]_vars

----------------------------------------------------------------------------
(* What the claims speak of. *)

(* The password under which the vault file is encrypted. *)
FilePassword == disk.ciphertext.key[1]

(* The file decrypts under password. *)
Decrypts(password) ==
    /\ disk.exists
    /\ AESGCM_verifies(derive_key(password, disk.salt), disk.nonce, disk.ciphertext)

(* The document in the file, decrypted and decoded. *)
DiskDocument == json_loads(disk.ciphertext.pt)

(* The file decrypts under the password of v to the entry list v holds. *)
Persisted(v) ==
    /\ Decrypts(vaults[v].master_password)
    /\ DiskDocument.entries = Entries(v)

EntryOps == {"add", "update", "get", "get_fields", "delete", "purge_expired"}

(* C1: round trip.  While every write since create() was an add without     *)
(* expiry by the creating instance, an unlock with the creator's password   *)
(* succeeds, on any instance, and list() on an instance unlocked on the     *)
(* file as it now is returns the names added, in insertion order.           *)
RoundTrip ==
    journal.clean =>
        /\ (/\ last.op = "unlock"
            /\ vaults[last.v].master_password = vaults[journal.writer].master_password)
                => last.raised = ""
        /\ (last.op = "list" /\ last.v \in journal.synced) => last.ret = journal.names

(* Two names were added and the creator locked; a second instance, opened on *)
(* the same file, lists them.                                                *)
RoundTripWitness ==
    /\ journal.clean
    /\ last.op = "list" /\ last.v # journal.writer /\ last.v \in journal.synced
    /\ Len(last.ret) >= 2 /\ last.ret[1] # last.ret[2]
    /\ vaults[journal.writer].is_locked

(* C2: authentication.  An unlock with a password other than the one the    *)
(* file is encrypted under raises, and leaves the instance locked, holding  *)
(* no content.                                                              *)
WrongPasswordRejected ==
    (last.op = "unlock" /\ disk.exists /\ vaults[last.v].master_password # FilePassword) =>
        /\ last.raised = "unlock"
        /\ vaults[last.v].is_locked
        /\ vaults[last.v].vault_data = None

(* A wrong password was tried on a file that holds an entry. *)
WrongPasswordWitness ==
    /\ last.op = "unlock" /\ last.raised = "unlock"
    /\ disk.exists /\ vaults[last.v].master_password # FilePassword
    /\ Len(DiskDocument.entries) > 0

(* C3: locked-state guard.  A call of an entry operation on an instance     *)
(* that is not unlocked changes neither memory nor file; list returns the   *)
(* empty sequence and every other operation raises the locked error.        *)
LockedGuard ==
    [][(/\ now' = now
        /\ last'.op \in EntryOps \cup {"list"}
        /\ vaults[last'.v].is_locked) =>
            /\ UNCHANGED <<vaults, disk>>
            /\ IF last'.op = "list"
               THEN last'.raised = "" /\ last'.ret = <<>>
               ELSE last'.raised = "locked"]_vars

(* list() was called on a locked vault whose file holds an entry. *)
LockedGuardWitness ==
    /\ last.op = "list" /\ last.ret = <<>>
    /\ vaults[last.v].is_locked
    /\ disk.exists /\ Len(DiskDocument.entries) > 0

(* C4: persistence of every mutation.  Between operations, the file         *)
(* decrypts under the password of every unlocked instance to exactly the    *)
(* entry list that instance holds.                                          *)
EveryMutationPersisted ==
    \A v \in Instances : ~vaults[v].is_locked => Persisted(v)

(* An update of one of two entries has been written. *)
EveryMutationPersistedWitness ==
    /\ last.op = "update" /\ last.raised = "" /\ last.wrote
    /\ ~vaults[last.v].is_locked /\ Len(Entries(last.v)) = 2

----------------------------------------------------------------------------
(* The vocabulary of the claims about entries, stated apart from the        *)
(* operators the operations are built from.                                 *)

Fold(name) ==
    [k \in DOMAIN name |-> CASE name[k] = "A" -> "a" [] name[k] = "B" -> "b" [] OTHER -> name[k]]
SameService(e, service) == Fold(e.service) = Fold(service)
FirstMatch(entries, service) ==
    IF \E k \in DOMAIN entries : SameService(entries[k], service)
    THEN CHOOSE k \in DOMAIN entries :
            SameService(entries[k], service) /\ \A j \in 1..(k - 1) : ~SameService(entries[j], service)
    ELSE 0
ExpiredAt(e, t) == "expires_at" \in DOMAIN e /\ t >= e.expires_at.secs
Blank(entry_data) ==
    \/ "service" \notin DOMAIN entry_data
    \/ \A k \in DOMAIN entry_data.service : entry_data.service[k] = " "
Without(entries, i) ==
    [k \in 1..(Len(entries) - 1) |-> IF k < i THEN entries[k] ELSE entries[k + 1]]
Immortal(entries) == SelectSeq(entries, LAMBDA e : "expires_at" \notin DOMAIN e)
Unexpired(entries, t) == SelectSeq(entries, LAMBDA e : ~ExpiredAt(e, t))
Range(f) == {f[k] : k \in DOMAIN f}

(* The step is a call of op on an instance that is unlocked. *)
Call(op) == now' = now /\ last'.op = op /\ ~vaults[last'.v].is_locked
Pre == vaults[last'.v].vault_data.entries
Post == vaults'[last'.v].vault_data.entries
Untouched == UNCHANGED <<vaults, disk>> /\ ~last'.wrote
Written == last'.wrote /\ \E v \in Instances : v = last'.v /\ Persisted(v)'

(* C5 as stated: every stored entry with an expiry is what get(service)     *)
(* returns before its expiry, get(service) returns not found from then on,  *)
(* and its service is then absent from list().                              *)
TTLExpiryAsStated ==
    [][/\ Call("get") =>
            \A k \in DOMAIN Pre :
                ("expires_at" \in DOMAIN Pre[k] /\ SameService(Pre[k], last'.args[1])) =>
                    IF now < Pre[k].expires_at.secs
                    THEN last'.ret = Pre[k] ELSE last'.ret = None
       /\ (Call("list") /\ ~last'.args[1]) =>
            \A k \in DOMAIN Pre :
                ExpiredAt(Pre[k], now) => Pre[k].service \notin Range(last'.ret)]_vars

(* C5, amended: an add with ttl_seconds = t at time T stores expires_at =   *)
(* T+t; an entry with an expiry that is the first match of its service is  *)
(* returned by get before its expiry and get returns not found from then    *)
(* on; list() names exactly the entries that are not expired.               *)
TTLExpiry ==
    [][/\ (Call("add") /\ last'.raised = "" /\ "ttl_seconds" \in DOMAIN last'.args[1]) =>
            /\ "expires_at" \in DOMAIN last'.ret
            /\ last'.ret.expires_at.secs = now + last'.args[1].ttl_seconds
            /\ (last'.args[1].ttl_seconds <= 0 => ExpiredAt(last'.ret, now))
       /\ Call("get") =>
            LET i == FirstMatch(Pre, last'.args[1]) IN
            (i > 0 /\ "expires_at" \in DOMAIN Pre[i]) =>
                IF now < Pre[i].expires_at.secs
                THEN last'.ret = Pre[i] ELSE last'.ret = None
       /\ (Call("list") /\ ~last'.args[1]) =>
            /\ last'.raised = ""
            /\ Len(last'.ret) = Len(Unexpired(Pre, now))
            /\ \A k \in DOMAIN last'.ret : last'.ret[k] = Unexpired(Pre, now)[k].service]_vars

(* An entry added at time 0 with ttl_seconds = 1 is looked up at time 1,    *)
(* without purge: not found, and the entry is still stored.                 *)
TTLExpiryWitness ==
    /\ last.op = "get" /\ last.raised = "" /\ last.ret = None /\ ~last.args[2]
    /\ now = 1
    /\ ~vaults[last.v].is_locked
    /\ LET i == FirstMatch(Entries(last.v), last.args[1]) IN
        /\ i > 0
        /\ "expires_at" \in DOMAIN Entries(last.v)[i]
        /\ Entries(last.v)[i].expires_at.secs = 1
        /\ Entries(last.v)[i].created_at.secs = 0

Appended ==
    /\ last'.raised = ""
    /\ Post = Append(Pre, last'.ret)
    /\ \A f \in DOMAIN last'.args[1] \ {"ttl_seconds"} :
            f \in DOMAIN last'.ret /\ last'.ret[f] = last'.args[1][f]
    /\ last'.ret.created_at.secs = now /\ last'.ret.updated_at.secs = now
    /\ Written

AddValidation ==
    [][(Call("add") /\ Blank(last'.args[1])) =>
            last'.raised = "validation" /\ Untouched]_vars

(* A whitespace-only service was rejected by a vault that holds an entry. *)
AddValidationWitness ==
    /\ last.op = "add" /\ last.raised = "validation"
    /\ "service" \in DOMAIN last.args[1] /\ last.args[1].service = <<" ">>
    /\ Len(Entries(last.v)) > 0

(* C9: get lazy purge.  get acts on the first case-insensitive match: not   *)
(* expired, it is returned and nothing changes; expired, get returns not    *)
(* found, and the entry is removed and the removal written exactly when     *)
(* purge_if_expired is true.                                                *)
GetLazyPurge ==
    [][Call("get") =>
            LET i == FirstMatch(Pre, last'.args[1]) IN
            /\ last'.raised = ""
            /\ IF i = 0 THEN last'.ret = None /\ Untouched
               ELSE IF ~ExpiredAt(Pre[i], now) THEN last'.ret = Pre[i] /\ Untouched
               ELSE /\ last'.ret = None
                    /\ IF last'.args[2]
                       THEN Post = Without(Pre, i) /\ Written
                       ELSE Untouched]_vars

(* get purged an expired first match and left a later entry of the same     *)
(* service in the list.                                                     *)
GetLazyPurgeWitness ==
    /\ last.op = "get" /\ last.ret = None /\ last.args[2] /\ last.wrote
    /\ Len(Entries(last.v)) = 1
    /\ SameService(Entries(last.v)[1], last.args[1])

(* What C10 says of an update, but for the fields update sets and for the   *)
(* get that follows.                                                        *)
UpdateApplies(i) ==
    /\ last'.raised = ""
    /\ Len(Post) = Len(Pre)
    /\ \A k \in DOMAIN Pre : k # i => Post[k] = Pre[k]
    /\ last'.ret = Post[i]
    /\ Post[i].updated_at.secs = now
    /\ Written
Renames(service, updates) ==
    "service" \in DOMAIN updates /\ Fold(strip(updates.service)) # Fold(strip(service))

(* The fields an update sets: those it names, ttl_seconds standing for      *)
(* expires_at, and updated_at.                                              *)
FieldsSet(updates) ==
    (DOMAIN updates \ {"ttl_seconds"}) \cup {"updated_at"}
        \cup (IF "ttl_seconds" \in DOMAIN updates THEN {"expires_at"} ELSE {})

(* What C10 says of the entry an update leaves. *)
Merged(before, after, updates) ==
    /\ DOMAIN after = DOMAIN before \cup FieldsSet(updates)
    /\ \A f \in DOMAIN updates \ {"ttl_seconds"} : after[f] = updates[f]
    /\ "ttl_seconds" \in DOMAIN updates => after.expires_at.secs = now + updates.ttl_seconds
    /\ \A f \in DOMAIN before \ FieldsSet(updates) : after[f] = before[f]

UpdateNeverRenames ==
    [][Call("update") =>
            LET i == FirstMatch(Pre, last'.args[1])
                updates == last'.args[2]
            IN  /\ (i > 0 /\ "service" \in DOMAIN updates /\ updates.service # Pre[i].service)
                        => last'.raised = "validation"
                /\ Len(Post) = Len(Pre)
                /\ \A k \in DOMAIN Pre : Post[k].service = Pre[k].service]_vars

(* What get(service) returns, by C9: the first match unless it is expired. *)
GetWould(entries, service, t) ==
    LET i == FirstMatch(entries, service) IN
    IF i = 0 THEN None ELSE IF ExpiredAt(entries[i], t) THEN None ELSE entries[i]

(* C12: get_fields returns names only.  get_fields(service) returns not     *)
(* found exactly when get(service) would, and otherwise the set of the      *)
(* field names of the entry get would return, which holds names of fields   *)
(* and no value; an entry added as {service, token} has the fields service, *)
(* token, created_at and updated_at.                                        *)
GetFieldsNamesOnly ==
    [][/\ Call("get_fields") =>
            LET e == GetWould(Pre, last'.args[1], now) IN
            /\ last'.raised = ""
            /\ IF e = None THEN last'.ret = None
               ELSE /\ last'.ret = [keys |-> DOMAIN e]
                    /\ last'.ret.keys \subseteq Range(FieldOrder)
       /\ (Call("add") /\ last'.raised = "" /\ DOMAIN last'.args[1] = {"service", "token"}) =>
            DOMAIN last'.ret = {"service", "token", "created_at", "updated_at"}]_vars

(* get_fields named the four fields of an entry that lies behind an entry   *)
(* of another service.                                                      *)
GetFieldsNamesOnlyWitness ==
    /\ last.op = "get_fields" /\ last.raised = "" /\ "keys" \in DOMAIN last.ret
    /\ last.ret.keys = {"service", "token", "created_at", "updated_at"}
    /\ Len(Entries(last.v)) = 2
    /\ FirstMatch(Entries(last.v), last.args[1]) = 2

(* C13: idempotent delete.  A delete of a service that no entry matches     *)
(* returns false, raises nothing and changes neither memory nor file; a     *)
(* delete that directly follows a delete of the same service on the same    *)
(* instance returns false.                                                  *)
IdempotentDelete ==
    [][/\ (Call("delete") /\ FirstMatch(Pre, last'.args[1]) = 0) =>
            last'.raised = "" /\ last'.ret = FALSE /\ Untouched
       /\ (/\ Call("delete")
           /\ last.op = "delete" /\ last.raised = ""
           /\ last.v = last'.v /\ last.args = last'.args) =>
            last'.raised = "" /\ last'.ret = FALSE]_vars

(* A delete found nothing to remove in a vault that holds two entries. *)
IdempotentDeleteWitness ==
    /\ last.op = "delete" /\ last.raised = "" /\ last.ret = FALSE
    /\ ~vaults[last.v].is_locked /\ Len(Entries(last.v)) = 2

(* C14: delete removes all matches.  delete(service) removes every entry    *)
(* whose service equals the argument case-insensitively, keeps the other    *)
(* entries in their order, writes the file when it removed an entry and     *)
(* only then, and returns true exactly when it removed one.                 *)
DeleteRemovesAll ==
    [][Call("delete") =>
            LET kept == SelectSeq(Pre, LAMBDA e : ~SameService(e, last'.args[1])) IN
            /\ last'.raised = ""
            /\ Post = kept
            /\ last'.ret = (Len(kept) < Len(Pre))
            /\ IF Len(kept) < Len(Pre) THEN Written ELSE Untouched]_vars

(* One delete removed two entries whose services differ in case only. *)
DeleteRemovesAllWitness ==
    /\ last.op = "delete" /\ last.raised = "" /\ last.ret = TRUE
    /\ journal.removed = 2
    /\ DiskDocument.entries = <<>>

(* C15: failed unlock keeps the prior state.  An unlock that raises leaves  *)
(* the instance as it was before the call: locked with no key and no        *)
(* content, or unlocked with the key and the content it had.                *)
FailedUnlockKeepsState ==
    [][(last'.op = "unlock" /\ last'.raised # "") =>
            /\ vaults'[last'.v] = vaults[last'.v]
            /\ vaults[last'.v].is_locked =>
                    /\ vaults'[last'.v].master_key = NoKey
                    /\ vaults'[last'.v].vault_data = None]_vars

(* C16: create is valid only when the vault file is absent.  A create()     *)
(* called while the file holds a vault does not succeed and leaves the file *)
(* as it is; stated for a vault that holds entries.                         *)
CreateOnlyWhenAbsent ==
    [][(/\ last'.op = "create" /\ now' = now
        /\ Complete(disk) /\ Len(DiskDocument.entries) > 0) =>
            /\ last'.raised # ""
            /\ disk' = disk]_vars

(* C20: atomic persistence.  Whenever a save stops, the vault file is a     *)
(* whole vault, the previous one or the new one: it is never truncated or   *)
(* partial.                                                                 *)
AtomicSave ==
    disk.exists => Complete(disk)

(* The salt a key was derived from. *)
KeySalt(key) == key[2]

(* C17: salt stability.  Once create() has written the file, every later    *)
(* write, by whatever instance and after whatever lock and unlock, leaves   *)
(* the salt of the file as it was, and the key a write encrypts under is    *)
(* the key of the writing instance, derived from the salt in the file.      *)
SaltStable ==
    [][/\ (disk.exists /\ last'.op # "create") =>
            disk'.exists /\ disk'.salt = disk.salt
       /\ last'.wrote =>
            /\ disk'.ciphertext.key = vaults'[last'.v].master_key
            /\ KeySalt(disk'.ciphertext.key) = disk'.salt]_vars

(* A second entry was written to a file created with the salt s2, by an     *)
(* instance that unlocked the file, the other instance being locked.        *)
SaltStableWitness ==
    /\ last.op = "add" /\ last.wrote
    /\ disk.salt = "s2"
    /\ Len(DiskDocument.entries) = 2
    /\ DiskDocument.version = CurrentVersion
    /\ \E w \in Instances : w # last.v /\ vaults[w].is_locked

(* The step is the call that last' records, made with                       *)
(* secrets.token_bytes(NONCE_SIZE) yielding nonce, if it comes to draw one. *)
Draws(nonce) ==
    LET v == last'.v
        args == last'.args
    IN  CASE last'.op = "create" -> \E salt \in Salts : create(v, salt, nonce)
          [] last'.op = "add" -> add_credential(v, args[1], nonce)
          [] last'.op = "update" -> update_credential(v, args[1], args[2], nonce)
          [] last'.op = "get" -> get_credential(v, args[1], args[2], nonce)
          [] last'.op = "delete" -> delete_credential(v, args[1], nonce)
          [] last'.op = "purge_expired" -> purge_expired(v, nonce)
          [] OTHER -> FALSE

OwnerOnlyAfterWrite ==
    [][last'.wrote => disk'.exists /\ disk'.mode = "0600"]_vars

(* A save has rewritten the file, which has the mode 0600. *)
OwnerOnlyAfterWriteWitness ==
    /\ last.op = "add" /\ last.wrote /\ last.raised = ""
    /\ disk.mode = "0600"
    /\ Len(DiskDocument.entries) = 2

(* C25: lookup rule.  get, get_fields and update act on the first entry, in *)
(* insertion order, whose service equals the argument but for letter case:  *)
(* what they return is that entry (its field names, its updated value), and *)
(* every other entry, a later one of the same service included, is left as  *)
(* it was.                                                                  *)
LookupFirstMatch ==
    [][LET i == FirstMatch(Pre, last'.args[1])
           found == last'.raised = "" /\ last'.ret # None
       IN  /\ Call("get") =>
                /\ found => (i > 0 /\ last'.ret = Pre[i])
                /\ Post = Pre \/ (i > 0 /\ Post = Without(Pre, i))
           /\ Call("get_fields") =>
                /\ found => (i > 0 /\ last'.ret = [keys |-> DOMAIN Pre[i]])
                /\ Post = Pre
           /\ Call("update") =>
                /\ found => (i > 0 /\ last'.ret = Post[i])
                /\ Len(Post) = Len(Pre)
                /\ \A k \in DOMAIN Pre : k # i => Post[k] = Pre[k]]_vars

(* get("A") returned the entry added first as "a", which shadows the entry  *)
(* added later as "A".                                                      *)
LookupFirstMatchWitness ==
    /\ last.op = "get" /\ last.raised = "" /\ last.args[1] = <<"A">>
    /\ Len(Entries(last.v)) = 2
    /\ Entries(last.v)[1].service = <<"a">> /\ Entries(last.v)[2].service = <<"A">>
    /\ last.ret = Entries(last.v)[1]
    /\ "expires_at" \in DOMAIN Entries(last.v)[2]

ServicesOf(entries) == [k \in 1..Len(entries) |-> entries[k].service]

(* C29: list is a pure read.  On an unlocked vault list(include_expired =   *)
(* true) returns the service names of all the entries in insertion order,   *)
(* list() those of the entries not expired at the time of the call, and     *)
(* neither changes the entry list or the file.                              *)
ListPureRead ==
    [][Call("list") =>
            /\ last'.raised = ""
            /\ last'.ret = ServicesOf(IF last'.args[1] THEN Pre ELSE Unexpired(Pre, now))
            /\ Untouched]_vars

(* list() left out an expired entry, which is still the first of the two    *)
(* entries stored.                                                          *)
ListPureReadWitness ==
    /\ last.op = "list" /\ last.raised = "" /\ ~last.args[1]
    /\ ~vaults[last.v].is_locked
    /\ Len(Entries(last.v)) = 2 /\ Len(last.ret) = 1
    /\ ExpiredAt(Entries(last.v)[1], now)
    /\ DiskDocument.entries = Entries(last.v)

(* C30: purge_expired.  purge_expired removes the entries that are expired  *)
(* at the time of the call and no other, keeps the rest in their order,     *)
(* returns the number removed, and writes the file exactly when that number *)
(* is greater than zero.                                                    *)
PurgeExpiredSweeps ==
    [][Call("purge_expired") =>
            /\ last'.raised = ""
            /\ Post = Unexpired(Pre, now)
            /\ last'.ret = Len(Pre) - Len(Post)
            /\ IF Len(Post) < Len(Pre) THEN Written ELSE Untouched]_vars

(* One purge_expired removed two expired entries. *)
PurgeExpiredSweepsWitness ==
    /\ last.op = "purge_expired" /\ last.raised = "" /\ last.ret = 2 /\ last.wrote
    /\ Entries(last.v) = <<>>
    /\ DiskDocument.entries = <<>>

(* The entry an update that succeeded has changed, before and after. *)
Updated(i) ==
    /\ last'.raised = "" /\ last'.ret # None
    /\ i > 0 /\ last'.ret = Post[i]
SameExpiry(before, after) ==
    IF "expires_at" \in DOMAIN before
    THEN "expires_at" \in DOMAIN after /\ after.expires_at = before.expires_at
    ELSE "expires_at" \notin DOMAIN after

(* C27 as stated: an update with ttl_seconds = t at time T sets expires_at  *)
(* to T+t, and an update without a ttl key leaves expires_at, present or    *)
(* absent, as it was.                                                       *)
UpdateExpiryAsStated ==
    [][Call("update") =>
            LET i == FirstMatch(Pre, last'.args[1])
                updates == last'.args[2]
            IN  Updated(i) =>
                    IF "ttl_seconds" \in DOMAIN updates
                    THEN "expires_at" \in DOMAIN Post[i]
                         /\ Post[i].expires_at = [secs |-> now + updates.ttl_seconds, tz |-> "+00:00"]
                    ELSE SameExpiry(Pre[i], Post[i])]_vars

(* C27, amended: an update without a ttl key leaves expires_at as it was    *)
(* unless the updates name expires_at themselves, in which case the value   *)
(* given is stored like that of any other field.                            *)
UpdateExpiry ==
    [][Call("update") =>
            LET i == FirstMatch(Pre, last'.args[1])
                updates == last'.args[2]
            IN  Updated(i) =>
                    IF "ttl_seconds" \in DOMAIN updates
                    THEN "expires_at" \in DOMAIN Post[i]
                         /\ Post[i].expires_at = [secs |-> now + updates.ttl_seconds, tz |-> "+00:00"]
                    ELSE IF "expires_at" \in DOMAIN updates
                    THEN "expires_at" \in DOMAIN Post[i]
                         /\ Post[i].expires_at = updates.expires_at
                    ELSE SameExpiry(Pre[i], Post[i])]_vars

(* At time 0 an update with ttl_seconds = 2 replaced the expiry, at time 1, *)
(* that the entry "a" was added with.                                       *)
UpdateExpiryWitness ==
    /\ last.op = "update" /\ last.raised = "" /\ last.ret # None
    /\ now = 0
    /\ last.ret.service = <<"a">>
    /\ "ttl_seconds" \in DOMAIN last.args[2]
    /\ last.ret.expires_at = [secs |-> 2, tz |-> "+00:00"]

(* The expires_at of the entry is no timestamp. *)
Unparsable(e) ==
    "expires_at" \in DOMAIN e /\ e.expires_at.tz \notin {"+00:00", "Z", ""}

(* C28: malformed expiry is a hard failure.  When the first match of a get  *)
(* has an expires_at that is no timestamp, get raises: it returns no entry, *)
(* removes none, and writes nothing.                                        *)
MalformedExpiryRaises ==
    [][Call("get") =>
            LET i == FirstMatch(Pre, last'.args[1]) IN
            (IF i = 0 THEN FALSE ELSE Unparsable(Pre[i])) =>
                /\ last'.raised = "malformed" /\ last'.ret = None
                /\ Untouched]_vars

(* A get that was to purge raised on an entry whose expires_at is no        *)
(* timestamp; the entry is still stored, in memory and in the file.         *)
MalformedExpiryRaisesWitness ==
    /\ last.op = "get" /\ last.raised = "malformed" /\ last.args[2]
    /\ LET i == FirstMatch(Entries(last.v), last.args[1]) IN
        i > 0 /\ Unparsable(Entries(last.v)[i])
    /\ DiskDocument.entries = Entries(last.v)


(* C22: shared file, several owners.  A mutation that an instance completes *)
(* without error leaves in the file every entry the file held that the      *)
(* mutation itself was not asked to take away: an add, which only appends,  *)
(* never rewrites the file to a state without an entry another instance put *)
(* there.                                                                   *)
NoSilentDrop ==
    [][(/\ last'.op = "add" /\ last'.wrote /\ last'.raised = ""
        /\ Complete(disk)) =>
            \A e \in Range(DiskDocument.entries) : e \in Range(DiskDocument'.entries)]_vars


(* The secret values of a list of entries: the values the callers gave for  *)
(* the fields of their credentials.                                         *)
SecretFields == {"token", "note"}
StoredSecrets(entries) ==
    UNION {{e[f] : f \in DOMAIN e \cap SecretFields} : e \in Range(entries)}

(* What is to be read in the bytes of a file by one who holds no key: the   *)
(* salt and the nonce, which are written as they are, and of the ciphertext *)
(* the values of its plaintext only where it was made under no key.         *)
Legible(file) ==
    IF ~file.exists THEN {}
    ELSE {file.salt, file.nonce}
            \cup IF file.ciphertext.key = NoKey /\ file.ciphertext.pt # <<>>
                 THEN StoredSecrets(json_loads(file.ciphertext.pt).entries)
                 ELSE {}

(* C24: confidentiality.  No secret value stored in the vault, in the file  *)
(* or in the memory of an unlocked instance, is to be read in the bytes of  *)
(* the vault file.                                                          *)
Confidentiality ==
    \A v \in Instances :
        /\ ~vaults[v].is_locked =>
                StoredSecrets(Entries(v)) \cap Legible(disk) = {}
        /\ (disk.exists /\ disk.ciphertext.pt # <<>>) =>
                StoredSecrets(DiskDocument.entries) \cap Legible(disk) = {}

(* The file holds a stored secret, written by a save, and its owner has     *)
(* locked the vault.                                                        *)
ConfidentialityWitness ==
    /\ Complete(disk) /\ vaults[Owner].is_locked
    /\ Secret \in StoredSecrets(DiskDocument.entries)
    /\ Confidentiality


(* C23: manager reinitialization is a no-op.  Once the manager holds a      *)
(* vault instance, a call of initialize() returns True, whatever password   *)
(* it is given, and leaves the vault file, the instance (its lifecycle      *)
(* state, key and content) and the manager as they were.                    *)
ReinitializeNoOp ==
    [][(last'.op = "initialize" /\ manager # NoVault) =>
            /\ last'.raised = "" /\ last'.ret = TRUE /\ ~last'.wrote
            /\ UNCHANGED <<disk, vaults, manager>>]_vars

(* initialize() was called with a password that is not the one of the       *)
(* instance the manager holds, which only a further call can be, on a vault *)
(* that is unlocked and holds an entry, and it returned True.               *)
ReinitializeNoOpWitness ==
    /\ last.op = "initialize" /\ manager # NoVault
    /\ last.args[1] # vaults[Owner].master_password
    /\ last.ret = TRUE
    /\ ~vaults[Owner].is_locked /\ Len(Entries(Owner)) > 0


(* C21: mutual exclusion on one instance.  The calls of two threads on one  *)
(* unlocked instance end as some serial order of them would; every serial   *)
(* order ends with a save of the entries the instance holds, so when no     *)
(* call is in progress the file decrypts to the entries in memory.          *)
SerialOutcome ==
    (Quiescent /\ disk.exists /\ ~vaults[Owner].is_locked) => Persisted(Owner)


(* C31: lock discards secrets.  A lock() of an unlocked vault, made through *)
(* the manager, leaves the instance locked, holding neither the derived key *)
(* nor the decrypted content, and is_locked() of the instance and of the    *)
(* manager are true afterwards.                                             *)
LockDiscards ==
    [][(last'.op = "lock" /\ manager # NoVault /\ ~vaults[last'.v].is_locked) =>
            /\ vaults'[last'.v].master_key = NoKey
            /\ vaults'[last'.v].vault_data = None
            /\ vaults'[last'.v].is_locked /\ manager_is_locked'
            /\ UNCHANGED disk]_vars

(* The manager's vault, opened with the password of a file that holds an    *)
(* entry, has been locked.                                                  *)
LockDiscardsWitness ==
    /\ last.op = "lock" /\ manager # NoVault
    /\ Complete(disk) /\ Decrypts(vaults[Owner].master_password)
    /\ Len(DiskDocument.entries) > 0
    /\ manager_is_locked /\ vaults[Owner].master_key = NoKey


(* C32: create outcome.  A create() that succeeds writes a file that        *)
(* decrypts, under the key of the instance, to a document of the current    *)
(* version with no entries, and leaves the instance unlocked, holding that  *)
(* key and that document; an entry operation made right after it is not     *)
(* refused as locked.                                                       *)
CreateOutcome ==
    [][/\ (last'.op = "create" /\ last'.raised = "") =>
            /\ Complete(disk')
            /\ DiskDocument'.version = CurrentVersion
            /\ DiskDocument'.entries = <<>>
            /\ ~vaults'[last'.v].is_locked
            /\ vaults'[last'.v].master_key = disk'.ciphertext.key
            /\ vaults'[last'.v].master_key
                    = derive_key(vaults[last'.v].master_password, disk'.salt)
            /\ vaults'[last'.v].vault_data = DiskDocument'
       /\ (last.op = "create" /\ last.raised = "" /\ last'.op \in EntryOps) =>
            last'.raised # "locked"]_vars

(* A create() has succeeded: the instance is unlocked and the file holds    *)
(* the empty document it holds.                                             *)
CreateOutcomeWitness ==
    /\ last.op = "create" /\ last.raised = "" /\ last.wrote
    /\ ~vaults[Owner].is_locked
    /\ Persisted(Owner) /\ Entries(Owner) = <<>>


(* C33: written version.  Every document that create() or save() writes to *)
(* the vault file carries the current version, whatever the version of the  *)
(* document that was unlocked.                                              *)
WrittenVersion ==
    [][last'.wrote =>
            /\ "version" \in DOMAIN DiskDocument'
            /\ DiskDocument'.version = CurrentVersion]_vars


(* The ways the vault file can be at fault when unlock() reads it, and the  *)
(* password being wrong for a file that is whole.                           *)
FileAtFault ==
    IF ~disk.exists THEN TRUE
    ELSE IF Short(disk) THEN TRUE
    ELSE IF ~Complete(disk) THEN TRUE
    ELSE IF KeySalt(disk.ciphertext.key) # disk.salt THEN TRUE
    ELSE ~Decodable(disk.ciphertext.pt)
PasswordAtFault(v) ==
    /\ ~FileAtFault
    /\ ~Decrypts(vaults[v].master_password)

(* C34: uniform unlock failure.  An unlock fails exactly when the file or   *)
(* the password is at fault, and every failure, of whichever kind, is       *)
(* raised as the same error, the VaultError of unlock's one except clause.  *)
UniformUnlockFailure ==
    [][last'.op = "unlock" =>
            /\ (last'.raised # "") <=> (FileAtFault \/ PasswordAtFault(last'.v))
            /\ last'.raised \in {"", "unlock"}]_vars

(* An unlock with the password of the vault has failed on a file whose      *)
(* plaintext, authentic under that password, is no JSON document.           *)
UniformUnlockFailureWitness ==
    /\ last.op = "unlock" /\ last.raised = "unlock"
    /\ Complete(disk) /\ Decrypts(vaults[last.v].master_password)
    /\ ~Decodable(disk.ciphertext.pt)


(* C35: initialization implies an unlocked vault.  Whenever initialize()    *)
(* returns True, the vault the manager holds is unlocked, with its key and  *)
(* its content in memory.                                                   *)
InitializeUnlocks ==
    [][(last'.op = "initialize" /\ last'.raised = "") =>
            (last'.ret = TRUE =>
                /\ manager' # NoVault
                /\ ~manager_is_locked'
                /\ vaults'[Owner].vault_data # None)]_vars


(* C36: no divergence on a failed save.  A mutating operation whose save    *)
(* fails raises and leaves the entries in memory as they were before the    *)
(* call.                                                                    *)
FailedSaveKeepsMemory ==
    [][(last'.op \in EntryOps /\ last'.raised = "save") =>
            /\ ~last'.wrote /\ disk' = disk
            /\ vaults'[last'.v].vault_data.entries = vaults[last'.v].vault_data.entries]_vars


(* C37: list and get agree.  In every unlocked state, each service name     *)
(* that list() returns now is one for which get(name) now returns an entry: *)
(* the first entry of that name is there and is not expired.                *)
ListGetAgree ==
    ~vaults[Owner].is_locked =>
        \A name \in Range(listed_services(Entries(Owner), FALSE, now)) :
            LET i == first_match(Entries(Owner), name)
            IN  i > 0 /\ ~is_entry_expired(Entries(Owner)[i], now)


(* C38: get_fields is a pure read.  A get_fields(service) changes neither   *)
(* the instance nor the vault file, whatever it returns; when the entry it  *)
(* stops at is expired it returns not found and the entry stays in place.   *)
GetFieldsPureRead ==
    [][(last'.op = "get_fields" /\ now' = now) =>
            /\ Untouched
            /\ (~vaults[last'.v].is_locked =>
                    LET i == FirstMatch(Pre, last'.args[1])
                    IN  (i > 0 /\ ExpiredAt(Pre[i], now)) =>
                            /\ last'.raised = "" /\ last'.ret = None
                            /\ Post = Pre)]_vars

(* get_fields has returned not found for a service whose first entry is     *)
(* expired, and that entry is still stored, in memory and in the file.      *)
GetFieldsPureReadWitness ==
    /\ last.op = "get_fields" /\ last.raised = "" /\ last.ret = None
    /\ ~vaults[Owner].is_locked /\ Persisted(Owner)
    /\ LET i == FirstMatch(Entries(Owner), last.args[1])
       IN  i > 0 /\ ExpiredAt(Entries(Owner)[i], now)


(* C39: expiry is final.  The clock never goes back, and a call on an       *)
(* unlocked vault leaves every expired entry as it is or removes it: an     *)
(* update whose entry is expired returns not found and changes nothing, and *)
(* neither get, get_fields nor list() returns an expired entry.             *)
ExpiryFinal ==
    [][/\ now' >= now
       /\ (last'.op \in EntryOps \cup {"list"} /\ now' = now /\ ~vaults[last'.v].is_locked) =>
            /\ IF Len(Post) >= Len(Pre)
               THEN \A k \in DOMAIN Pre : ExpiredAt(Pre[k], now) => Post[k] = Pre[k]
               ELSE Range(Post) \subseteq Range(Pre)
            /\ last'.op = "update" =>
                    LET i == FirstMatch(Pre, last'.args[1])
                    IN  (i > 0 /\ ExpiredAt(Pre[i], now)) =>
                            /\ last'.raised = "" => last'.ret = None
                            /\ Untouched
            /\ (last'.op = "get" /\ last'.raised = "") =>
                    (last'.ret # None => ~ExpiredAt(last'.ret, now))
            /\ (last'.op = "get_fields" /\ last'.raised = "") =>
                    (last'.ret # None =>
                        ~ExpiredAt(Pre[FirstMatch(Pre, last'.args[1])], now))
            /\ (last'.op = "list" /\ last'.raised = "") =>
                    (~last'.args[1] => last'.ret = ServicesOf(Unexpired(Pre, now)))]_vars

(* An update that asked for a new lifetime has returned not found for an    *)
(* entry that is expired, and the entry is stored as it was, still expired. *)
ExpiryFinalWitness ==
    /\ last.op = "update" /\ last.raised = "" /\ last.ret = None
    /\ "ttl_seconds" \in DOMAIN last.args[2]
    /\ ~vaults[Owner].is_locked /\ Persisted(Owner)
    /\ LET i == FirstMatch(Entries(Owner), last.args[1])
       IN  i > 0 /\ ExpiredAt(Entries(Owner)[i], now)


(* C40: lifecycle representation invariant.  Between calls, an instance     *)
(* that reports unlocked holds a derived key and a content document with an *)
(* entries list, and a manager that holds no instance reports locked.       *)
LifecycleInvariant ==
    /\ \A v \in Instances :
            ~is_locked(v) =>
                /\ vaults[v].master_key # NoKey
                /\ vaults[v].vault_data # None
                /\ "entries" \in DOMAIN vaults[v].vault_data
    /\ manager = NoVault => manager_is_locked
    /\ manager # NoVault => (manager_is_locked <=> is_locked(manager))

(* initialize() has returned without writing, and the vault the manager    *)
(* holds reports unlocked and holds an entry.                               *)
LifecycleInvariantWitness ==
    /\ last.op = "initialize" /\ last.raised = ""
    /\ manager # NoVault /\ ~manager_is_locked
    /\ ~last.wrote /\ Len(Entries(Owner)) > 0

====
